---- MODULE Spec2Model ----
(***************************************************************************)
(* Model of the four build-automation tools of the repository:             *)
(*   strip_weights.py, generate_weights.py, check_opus_version.py and      *)
(*   vendor_opus.py.                                                       *)
(* Each tool has its own specification (SpecStrip, SpecStripMain,          *)
(* SpecPatch, SpecGen, SpecTools); the variables of the other tools stay   *)
(* at their initial value.                                                 *)
(***************************************************************************)
EXTENDS Integers, Sequences, FiniteSets, TLC

VARIABLES
    \* ---- strip_weights.py: strip_weights_from_file ----
    sw_exists,          \* filepath.exists()
    sw_file,            \* file content, as the list content.split('\n')
    sw_dry_run,         \* dry_run argument
    sw_pc,              \* "call" | "scan" | "done"
    lines,              \* local: lines
    sw_idx,             \* position of the for loop (lines already consumed)
    new_lines,          \* local: new_lines
    in_weights_block,   \* local: in_weights_block
    depth,              \* local: depth
    removed_lines,      \* local: removed_lines
    sw_result,          \* returned (original_size, new_size)
    sw_runs,            \* number of completed calls on the same file
    sw_zero_at,         \* history: loop positions whose #endif brought depth to 0
    sw_first,           \* history: file content when the first call started
    sw_prev             \* history: file content when the current call started

stripVars == <<sw_exists, sw_file, sw_dry_run, sw_pc, lines, sw_idx, new_lines,
               in_weights_block, depth, removed_lines, sw_result, sw_runs,
               sw_zero_at, sw_first, sw_prev>>

VARIABLES
    \* ---- generate_weights.py: the two patches of write_lpcnet_weights.c ----
    pf_exists,          \* write_weights_file.exists()
    pf_content,         \* content of dnn/write_lpcnet_weights.c, as a list of fragments
    pt_log              \* history: the applications so far, [patch, outcome, msg, before, after]

patchVars == <<pf_exists, pf_content, pt_log>>

VARIABLES
    \* ---- the project directory ----
    manifest,           \* vendored/OPUS_VERSION: NoFile, or the text after "commit:"
    \* ---- generate_weights.py: generate_weights and main ----
    g_pc,               \* next step of generate_weights / main
    g_commit,           \* local: commit
    g_temp,             \* the temporary directory exists
    g_tree,             \* temp_dir/opus: NoGenTree, or what the clone holds
    g_model_hash,       \* local: model_hash
    g_model,            \* the model payload has been downloaded
    g_exe,              \* build_dir/write_lpcnet_weights exists
    g_blob,             \* build_dir/weights_blob.bin: None or its content
    g_out,              \* names of the files of the output directory
    g_exc,              \* the exception in flight ("" when none)
    g_ret,              \* value returned by generate_weights
    g_exit,             \* exit status of main (-1 while running)
    g_steps             \* history: the steps entered, in order

genVars == <<g_pc, g_commit, g_temp, g_tree, g_model_hash, g_model, g_exe, g_blob,
             g_out, g_exc, g_ret, g_exit, g_steps>>

fsVars == <<manifest>>

VARIABLES
    \* ---- strip_weights.py: main ----
    sm_dir,             \* vendored/opus/dnn exists
    sm_files,           \* the data files: name -> Absent or list of lines
    sm_dry_run,         \* '--dry-run' in sys.argv
    sm_pc,              \* "start" | "loop" | "totals" | "done"
    sm_i,               \* number of DATA_FILES entries processed
    total_original,     \* local: total_original
    total_new,          \* local: total_new
    sm_exc,             \* uncaught exception ("" when none)
    sm_exit             \* exit status of the process (-1 while running)

stripMainVars == <<sm_dir, sm_files, sm_dry_run, sm_pc, sm_i, total_original, total_new,
                   sm_exc, sm_exit>>

VARIABLES
    \* ---- check_opus_version.py and vendor_opus.py ----
    upstream,           \* head of xiph/opus main
    tree,               \* vendored/opus: NoTree, or what the directory holds
    bindings,           \* src/bindings.rs: None, or the commit it was generated from
    wrapper,            \* vendored/opus/include/opus_all.h exists
    tool,               \* the tool that runs: "idle" | "check" | "vendor"
    t_pc,               \* next step of the running tool
    t_runs,             \* tool runs started so far
    t_fs0,              \* history: <<manifest, tree, bindings>> when the run started
    t_lookups,          \* history: remote lookups made by the run
    t_steps,            \* history: steps of the run, in order
    t_exc,              \* uncaught exception of the run ("" when none)
    t_exit,             \* exit status of the run (-1 while running)
    c_vendored,         \* check main: vendored
    c_latest,           \* check main: latest
    v_bindings_only,    \* vendor main: args.bindings_only
    v_force,            \* vendor main: args.force
    v_sha,              \* vendor main: commit_info["sha"]
    v_current,          \* vendor main: current_commit
    v_model_hash,       \* vendor main: model_hash
    v_warnings          \* vendor main: warnings printed by the run

toolVars == <<upstream, tree, bindings, wrapper, tool, t_pc, t_runs, t_fs0, t_lookups,
              t_steps, t_exc, t_exit, c_vendored, c_latest, v_bindings_only, v_force,
              v_sha, v_current, v_model_hash, v_warnings>>

vars == <<stripVars, patchVars, fsVars, genVars, stripMainVars, toolVars>>

nonStripVars == <<patchVars, fsVars, genVars, stripMainVars, toolVars>>
nonPatchVars == <<stripVars, fsVars, genVars, stripMainVars, toolVars>>
nonGenVars == <<stripVars, pt_log, fsVars, stripMainVars, toolVars>>
nonStripMainVars == <<stripVars, patchVars, fsVars, genVars, toolVars>>
nonToolVars == <<stripVars, patchVars, genVars, stripMainVars>>

(***************************************************************************)
(* Bounds                                                                  *)
(***************************************************************************)
MaxLines == 5
MaxRuns == 2
MaxFrags == 3
MaxApply == 4
MaxToolRuns == 2

\* Python's None
None == "None"

\* vendored/opus does not exist
NoTree == [exists |-> FALSE, commit |-> None, git |-> FALSE, autogen |-> "<no autogen.sh>",
           script |-> FALSE, model |-> FALSE]

\* temp_dir/opus does not exist
NoGenTree == [exists |-> FALSE, autogen |-> "<no autogen.sh>", script |-> FALSE,
              parser |-> FALSE]

(***************************************************************************)
(* vendored/OPUS_VERSION, as the tools read it                             *)
(***************************************************************************)
NoFile == "<no file>"
NoCommitLine == "<no commit line>"
Shas == {"a1a1a1a1", "b2b2b2b2"}
CommitFields == Shas \cup {"unknown"}
Manifests == {NoFile, NoCommitLine} \cup CommitFields

\* re.search(r'^commit:\s*([a-fA-F0-9]+)', text): the hexadecimal run after
\* "commit:", None when the file or the line is missing or no hexadecimal
\* digit follows
ReadCommit(m) == IF m \in Shas THEN m ELSE None

(***************************************************************************)
(* strip_weights.py: lines of a data file                                  *)
(***************************************************************************)
GUARD == "#ifndef USE_WEIGHTS_FILE"
IFDEF == "#ifdef DOT_PROD"
ENDIF == "#endif"
ENDIF_INDENTED == "  #endif"
DATA == "0.5f,"
COMMENT == "/* Weight data stripped by strip_weights.py for crate size reduction */"

LineAlphabet == {GUARD, IFDEF, ENDIF, ENDIF_INDENTED, DATA, COMMENT}

\* line.strip()
StrStrip(line) == IF line = ENDIF_INDENTED THEN ENDIF ELSE line

\* stripped.startswith('#if')
StartsWithIf(s) == s \in {GUARD, IFDEF}

\* stripped.startswith('#endif')
StartsWithEndif(s) == s = ENDIF

\* len(line.encode('utf-8'))
LineBytes(line) ==
    CASE line = GUARD -> 24
      [] line = IFDEF -> 15
      [] line = ENDIF -> 6
      [] line = ENDIF_INDENTED -> 8
      [] line = DATA -> 5
      [] line = COMMENT -> 71
      [] OTHER -> 0

RECURSIVE SumBytes(_)
SumBytes(ls) == IF ls = <<>> THEN 0 ELSE LineBytes(Head(ls)) + SumBytes(Tail(ls))

\* len('\n'.join(ls).encode('utf-8'))
ContentBytes(ls) == IF ls = <<>> THEN 0 ELSE SumBytes(ls) + (Len(ls) - 1)

\* State of the scan loop of strip_weights_from_file.
ScanInit == [new_lines |-> <<>>, in_weights_block |-> FALSE, depth |-> 0,
             removed_lines |-> 0, closed |-> FALSE]

\* ScanStep with the body of the region copied instead of discarded.
ScanStepKeepBody(st, line) ==
    LET stripped == StrStrip(line) IN
    IF stripped = GUARD THEN
        [st EXCEPT !.in_weights_block = TRUE,
                   !.depth = 1,
                   !.new_lines = Append(Append(st.new_lines, line), COMMENT),
                   !.closed = FALSE]
    ELSE IF st.in_weights_block /\ StartsWithEndif(stripped) /\ st.depth - 1 = 0 THEN
        [st EXCEPT !.depth = 0,
                   !.in_weights_block = FALSE,
                   !.new_lines = Append(st.new_lines, line),
                   !.closed = TRUE]
    ELSE
        [st EXCEPT !.depth = IF ~st.in_weights_block THEN st.depth
                             ELSE IF StartsWithIf(stripped) THEN st.depth + 1
                             ELSE IF StartsWithEndif(stripped) THEN st.depth - 1
                             ELSE st.depth,
                   !.new_lines = Append(st.new_lines, line),
                   !.closed = FALSE]

\* ScanStep that exits the region at the first #endif, whatever the depth.
ScanStepFirstEndif(st, line) ==
    LET stripped == StrStrip(line) IN
    IF stripped = GUARD THEN
        [st EXCEPT !.in_weights_block = TRUE,
                   !.depth = 1,
                   !.new_lines = Append(Append(st.new_lines, line), COMMENT),
                   !.closed = FALSE]
    ELSE IF st.in_weights_block THEN
        IF StartsWithEndif(stripped) THEN
            [st EXCEPT !.depth = 0,
                       !.in_weights_block = FALSE,
                       !.new_lines = Append(st.new_lines, line),
                       !.closed = TRUE]
        ELSE
            [st EXCEPT !.removed_lines = st.removed_lines + 1, !.closed = FALSE]
    ELSE
        [st EXCEPT !.new_lines = Append(st.new_lines, line), !.closed = FALSE]

\* ScanStep that keeps a comment line it finds inside the region.
ScanStepKeepComment(st, line) ==
    LET stripped == StrStrip(line) IN
    IF stripped = GUARD THEN
        [st EXCEPT !.in_weights_block = TRUE,
                   !.depth = 1,
                   !.new_lines = Append(Append(st.new_lines, line), COMMENT),
                   !.closed = FALSE]
    ELSE IF st.in_weights_block THEN
        IF StartsWithIf(stripped) THEN
            [st EXCEPT !.depth = st.depth + 1,
                       !.removed_lines = st.removed_lines + 1,
                       !.closed = FALSE]
        ELSE IF StartsWithEndif(stripped) THEN
            IF st.depth - 1 = 0 THEN
                [st EXCEPT !.depth = 0,
                           !.in_weights_block = FALSE,
                           !.new_lines = Append(st.new_lines, line),
                           !.closed = TRUE]
            ELSE
                [st EXCEPT !.depth = st.depth - 1,
                           !.removed_lines = st.removed_lines + 1,
                           !.closed = FALSE]
        ELSE IF stripped = COMMENT THEN
            [st EXCEPT !.new_lines = Append(st.new_lines, line),
                       !.removed_lines = st.removed_lines + 1,
                       !.closed = FALSE]
        ELSE
            [st EXCEPT !.removed_lines = st.removed_lines + 1,
                       !.closed = FALSE]
    ELSE
        [st EXCEPT !.new_lines = Append(st.new_lines, line), !.closed = FALSE]

\* One iteration of "for line in lines"; closed records that this iteration
\* took the "depth == 0" branch.
ScanStep(st, line) ==
    LET stripped == StrStrip(line) IN
    IF stripped = GUARD THEN
        [st EXCEPT !.in_weights_block = TRUE,
                   !.depth = 1,
                   !.new_lines = Append(Append(st.new_lines, line), COMMENT),
                   !.closed = FALSE]
    ELSE IF st.in_weights_block THEN
        IF StartsWithIf(stripped) THEN
            [st EXCEPT !.depth = st.depth + 1,
                       !.removed_lines = st.removed_lines + 1,
                       !.closed = FALSE]
        ELSE IF StartsWithEndif(stripped) THEN
            IF st.depth - 1 = 0 THEN
                [st EXCEPT !.depth = 0,
                           !.in_weights_block = FALSE,
                           !.new_lines = Append(st.new_lines, line),
                           !.closed = TRUE]
            ELSE
                [st EXCEPT !.depth = st.depth - 1,
                           !.removed_lines = st.removed_lines + 1,
                           !.closed = FALSE]
        ELSE
            [st EXCEPT !.removed_lines = st.removed_lines + 1,
                       !.closed = FALSE]
    ELSE
        [st EXCEPT !.new_lines = Append(st.new_lines, line), !.closed = FALSE]

RECURSIVE ScanAll(_, _)
ScanAll(st, ls) == IF ls = <<>> THEN st ELSE ScanAll(ScanStep(st, Head(ls)), Tail(ls))

\* new_content of a whole call, as a list of lines
StripContent(ls) == ScanAll(ScanInit, ls).new_lines

\* Whether the call writes the file back
StripWrites(ls, dry) == ~dry /\ ScanAll(ScanInit, ls).removed_lines > 0

\* File content after a call of strip_weights_from_file
StripFileAfter(ls, dry) == IF StripWrites(ls, dry) THEN StripContent(ls) ELSE ls

\* The value the call returns
StripReturn(exists, ls) ==
    IF ~exists THEN <<0, 0>>
    ELSE <<ContentBytes(ls), ContentBytes(StripContent(ls))>>

RECURSIVE SeqsUpTo(_, _)
SeqsUpTo(S, n) ==
    IF n = 0 THEN {<<>>}
    ELSE LET shorter == SeqsUpTo(S, n - 1)
         IN shorter \cup {Append(s, x) : s \in {t \in shorter : Len(t) = n - 1}, x \in S}

\* content.split('\n') never returns an empty list
FileContents == {s \in SeqsUpTo(LineAlphabet, MaxLines) : Len(s) >= 1}

\* The other tools are not running.
StripQuiet ==
    /\ sw_exists = FALSE /\ sw_file = <<>> /\ sw_dry_run = FALSE /\ sw_first = <<>>
    /\ sw_prev = <<>> /\ sw_pc = "call" /\ lines = <<>> /\ sw_idx = 0 /\ new_lines = <<>>
    /\ in_weights_block = FALSE /\ depth = 0 /\ removed_lines = 0
    /\ sw_result = <<0, 0>> /\ sw_runs = 0 /\ sw_zero_at = {}

PatchQuiet == pf_exists = FALSE /\ pf_content = <<>> /\ pt_log = <<>>

FsQuiet == manifest = NoFile

ToolLocalsIdle ==
    /\ tool = "idle" /\ t_pc = "idle" /\ t_runs = 0 /\ t_lookups = 0 /\ t_steps = <<>>
    /\ t_exc = "" /\ t_exit = -1 /\ c_vendored = None /\ c_latest = None
    /\ v_bindings_only = FALSE /\ v_force = FALSE /\ v_sha = None /\ v_current = None
    /\ v_model_hash = None /\ v_warnings = {}

ToolQuiet ==
    /\ upstream = "a1a1a1a1" /\ tree = NoTree /\ bindings = None /\ wrapper = FALSE
    /\ t_fs0 = <<NoFile, NoTree, None>>
    /\ ToolLocalsIdle

StripMainQuiet ==
    /\ sm_dir = FALSE /\ sm_files = <<>> /\ sm_dry_run = FALSE /\ sm_pc = "start"
    /\ sm_i = 0 /\ total_original = 0 /\ total_new = 0 /\ sm_exc = "" /\ sm_exit = -1

GenQuiet ==
    /\ g_pc = "start" /\ g_commit = None /\ g_temp = FALSE /\ g_tree = NoGenTree
    /\ g_model_hash = None /\ g_model = FALSE /\ g_exe = FALSE /\ g_blob = None
    /\ g_out = {} /\ g_exc = "" /\ g_ret = <<>> /\ g_exit = -1 /\ g_steps = <<>>

StripIdle ==
    /\ sw_pc = "call" /\ lines = <<>> /\ sw_idx = 0 /\ new_lines = <<>>
    /\ in_weights_block = FALSE /\ depth = 0 /\ removed_lines = 0
    /\ sw_result = <<0, 0>> /\ sw_runs = 0 /\ sw_zero_at = {}

InitStrip ==
    /\ sw_exists \in BOOLEAN
    /\ sw_file \in (IF sw_exists THEN FileContents ELSE {<<>>})
    /\ sw_dry_run \in BOOLEAN
    /\ sw_first = sw_file
    /\ sw_prev = sw_file
    /\ StripIdle
    /\ PatchQuiet
    /\ FsQuiet
    /\ GenQuiet
    /\ StripMainQuiet
    /\ ToolQuiet

\* Lines 39-57: existence check, read, split, loop set-up
StripCall ==
    /\ sw_pc = "call"
    /\ sw_prev' = sw_file
    /\ sw_zero_at' = {}
    /\ IF ~sw_exists
       THEN /\ sw_result' = <<0, 0>>
            /\ sw_pc' = "done"
            /\ UNCHANGED <<lines, sw_idx, new_lines, in_weights_block, depth, removed_lines>>
       ELSE /\ lines' = sw_file
            /\ sw_idx' = 0
            /\ new_lines' = ScanInit.new_lines
            /\ in_weights_block' = ScanInit.in_weights_block
            /\ depth' = ScanInit.depth
            /\ removed_lines' = ScanInit.removed_lines
            /\ sw_pc' = "scan"
            /\ UNCHANGED sw_result
    /\ UNCHANGED <<sw_exists, sw_file, sw_dry_run, sw_runs, sw_first>>
    /\ UNCHANGED nonStripVars

\* Lines 59-86: one iteration of the loop
StripScanLine ==
    /\ sw_pc = "scan"
    /\ sw_idx < Len(lines)
    /\ LET st == ScanStep([new_lines |-> new_lines,
                           in_weights_block |-> in_weights_block,
                           depth |-> depth,
                           removed_lines |-> removed_lines,
                           closed |-> FALSE], lines[sw_idx + 1])
       IN /\ new_lines' = st.new_lines
          /\ in_weights_block' = st.in_weights_block
          /\ depth' = st.depth
          /\ removed_lines' = st.removed_lines
          /\ sw_zero_at' = IF st.closed THEN sw_zero_at \cup {sw_idx + 1} ELSE sw_zero_at
    /\ sw_idx' = sw_idx + 1
    /\ UNCHANGED <<sw_exists, sw_file, sw_dry_run, sw_pc, lines, sw_result, sw_runs,
                   sw_first, sw_prev>>
    /\ UNCHANGED nonStripVars

\* Lines 88-94 with the dry_run test of line 91 left out.
StripFinishIgnoringDryRun ==
    /\ sw_pc = "scan"
    /\ sw_idx = Len(lines)
    /\ sw_result' = <<ContentBytes(lines), ContentBytes(new_lines)>>
    /\ sw_file' = IF removed_lines > 0 THEN new_lines ELSE sw_file
    /\ sw_pc' = "done"
    /\ UNCHANGED <<sw_exists, sw_dry_run, lines, sw_idx, new_lines, in_weights_block,
                   depth, removed_lines, sw_runs, sw_zero_at, sw_first, sw_prev>>
    /\ UNCHANGED nonStripVars

\* Lines 88-94: join, sizes, conditional write, return
StripFinish ==
    /\ sw_pc = "scan"
    /\ sw_idx = Len(lines)
    /\ sw_result' = <<ContentBytes(lines), ContentBytes(new_lines)>>
    /\ sw_file' = IF ~sw_dry_run /\ removed_lines > 0 THEN new_lines ELSE sw_file
    /\ sw_pc' = "done"
    /\ UNCHANGED <<sw_exists, sw_dry_run, lines, sw_idx, new_lines, in_weights_block,
                   depth, removed_lines, sw_runs, sw_zero_at, sw_first, sw_prev>>
    /\ UNCHANGED nonStripVars

\* The operator runs the tool again on the same file
StripAgain ==
    /\ sw_pc = "done"
    /\ sw_runs + 1 < MaxRuns
    /\ sw_runs' = sw_runs + 1
    /\ sw_pc' = "call"
    /\ UNCHANGED <<sw_exists, sw_file, sw_dry_run, lines, sw_idx, new_lines,
                   in_weights_block, depth, removed_lines, sw_result, sw_zero_at,
                   sw_first, sw_prev>>
    /\ UNCHANGED nonStripVars

NextStrip == StripCall \/ StripScanLine \/ StripFinish \/ StripAgain

SpecStrip == InitStrip /\ [][NextStrip]_vars

(***************************************************************************)
(* generate_weights.py: apply_binary_mode_patch, apply_bwe_weights_patch   *)
(* The source file is a list of text fragments; "x in content" is "some    *)
(* fragment contains x" and content.replace maps every fragment.           *)
(***************************************************************************)
FOPEN_W == "fopen(weights_blob.bin, w)"                \* old_line
FOPEN_WB == "fopen(weights_blob.bin, wb)"              \* new_line
FOPEN_ALTERED == "fopen(weights_blob.bin,w)"           \* the call, spelled differently
WB_ELSEWHERE == "fopen(dump.bin, wb)"                  \* another text holding "wb"
OSCE_INCLUDE == "#ifdef ENABLE_OSCE #include lace nolace #endif"      \* old_include
OSCE_INCLUDE_BWE == "#ifdef ENABLE_OSCE #include lace nolace #endif #ifdef ENABLE_OSCE_BWE #include bbwenet #endif"    \* new_include
OSCE_INCLUDE_BWE2 == "#ifdef ENABLE_OSCE #include lace nolace #endif #ifdef ENABLE_OSCE_BWE #include bbwenet #endif #ifdef ENABLE_OSCE_BWE #include bbwenet #endif"
OSCE_MAIN == "#ifdef ENABLE_OSCE write lace nolace #endif fclose"     \* old_main
OSCE_MAIN_BWE == "#ifdef ENABLE_OSCE write lace nolace #endif #ifdef ENABLE_OSCE_BWE write bbwenet #endif fclose"    \* new_main
OSCE_MAIN_ALTERED == "#ifdef ENABLE_OSCE write lace #endif fclose"    \* the block, changed upstream
BWE_ELSEWHERE == "#ifdef ENABLE_OSCE_BWE other #endif"                \* another text holding the macro

Fragments == {FOPEN_W, FOPEN_WB, FOPEN_ALTERED, WB_ELSEWHERE, OSCE_INCLUDE, OSCE_MAIN,
              OSCE_MAIN_ALTERED, BWE_ELSEWHERE}

\* '"wb"' in fragment
HoldsWb(f) == f \in {FOPEN_WB, WB_ELSEWHERE}
\* old_line in fragment
HoldsOldLine(f) == f = FOPEN_W
\* 'ENABLE_OSCE_BWE' in fragment
HoldsBweMacro(f) == f \in {OSCE_INCLUDE_BWE, OSCE_INCLUDE_BWE2, OSCE_MAIN_BWE, BWE_ELSEWHERE}
\* old_include in fragment: new_include begins with the text of old_include
HoldsOldInclude(f) == f \in {OSCE_INCLUDE, OSCE_INCLUDE_BWE, OSCE_INCLUDE_BWE2}
\* old_main in fragment
HoldsOldMain(f) == f = OSCE_MAIN

ReplOldLine(f) == IF f = FOPEN_W THEN FOPEN_WB ELSE f
ReplOldInclude(f) ==
    CASE f = OSCE_INCLUDE -> OSCE_INCLUDE_BWE
      [] f = OSCE_INCLUDE_BWE -> OSCE_INCLUDE_BWE2
      [] OTHER -> f
ReplOldMain(f) == IF f = OSCE_MAIN THEN OSCE_MAIN_BWE ELSE f

\* "x in content": some fragment holds x
HasWb(content) == \E k \in 1..Len(content) : HoldsWb(content[k])
HasOldLine(content) == \E k \in 1..Len(content) : HoldsOldLine(content[k])
HasBweMacro(content) == \E k \in 1..Len(content) : HoldsBweMacro(content[k])
HasOldInclude(content) == \E k \in 1..Len(content) : HoldsOldInclude(content[k])
HasOldMain(content) == \E k \in 1..Len(content) : HoldsOldMain(content[k])

\* content.replace(old, new), fragment by fragment
ReplaceOldLine(content) == [k \in 1..Len(content) |-> ReplOldLine(content[k])]
ReplaceOldInclude(content) == [k \in 1..Len(content) |-> ReplOldInclude(content[k])]
ReplaceOldMain(content) == [k \in 1..Len(content) |-> ReplOldMain(content[k])]

Returned(outcome, content) == [outcome |-> outcome, msg |-> "", content |-> content]
Raised(msg, content) == [outcome |-> "raised", msg |-> msg, content |-> content]

\* apply_binary_mode_patch without the test for the text-mode open call.
BinaryModePatchNoAnchorTest(exists, content) ==
    IF ~exists THEN Raised("write_lpcnet_weights.c not found", content)
    ELSE IF HasWb(content) THEN Returned("already", content)
    ELSE Returned("applied", ReplaceOldLine(content))

\* apply_binary_mode_patch without the test for the applied patch.
BinaryModePatchNoAppliedTest(exists, content) ==
    IF ~exists THEN Raised("write_lpcnet_weights.c not found", content)
    ELSE IF ~HasOldLine(content)
         THEN Raised("Could not find fopen line to patch", content)
    ELSE Returned("applied", ReplaceOldLine(content))

\* apply_binary_mode_patch: the outcome and the content of the file after it
ApplyBinaryModePatch(exists, content) ==
    IF ~exists THEN Raised("write_lpcnet_weights.c not found", content)
    ELSE IF HasWb(content) THEN Returned("already", content)
    ELSE IF ~HasOldLine(content)
         THEN Raised("Could not find fopen line to patch", content)
    ELSE Returned("applied", ReplaceOldLine(content))

\* apply_bwe_weights_patch: the outcome and the content of the file after it
ApplyBweWeightsPatch(exists, content) ==
    IF ~exists THEN Raised("write_lpcnet_weights.c not found", content)
    ELSE IF HasBweMacro(content) THEN Returned("already", content)
    ELSE IF ~HasOldInclude(content)
         THEN Raised("Could not find OSCE include block to patch", content)
    ELSE LET content1 == ReplaceOldInclude(content) IN
         IF ~HasOldMain(content1)
         THEN Raised("Could not find main() block to patch", content)
         ELSE Returned("applied", ReplaceOldMain(content1))

InitPatch ==
    /\ pf_exists \in BOOLEAN
    /\ pf_content \in (IF pf_exists THEN SeqsUpTo(Fragments, MaxFrags) ELSE {<<>>})
    /\ pt_log = <<>>
    /\ StripQuiet
    /\ FsQuiet
    /\ GenQuiet
    /\ StripMainQuiet
    /\ ToolQuiet

\* One call of apply_binary_mode_patch on the file
PatchBinaryMode ==
    LET r == ApplyBinaryModePatch(pf_exists, pf_content) IN
    /\ Len(pt_log) < MaxApply
    /\ pf_content' = r.content
    /\ pt_log' = Append(pt_log, [patch |-> "binary", outcome |-> r.outcome, msg |-> r.msg,
                                 before |-> pf_content, after |-> r.content])
    /\ UNCHANGED pf_exists
    /\ UNCHANGED nonPatchVars

\* One call of apply_bwe_weights_patch on the file
PatchBweWeights ==
    LET r == ApplyBweWeightsPatch(pf_exists, pf_content) IN
    /\ Len(pt_log) < MaxApply
    /\ pf_content' = r.content
    /\ pt_log' = Append(pt_log, [patch |-> "bwe", outcome |-> r.outcome, msg |-> r.msg,
                                 before |-> pf_content, after |-> r.content])
    /\ UNCHANGED pf_exists
    /\ UNCHANGED nonPatchVars

NextPatch == PatchBinaryMode \/ PatchBweWeights

SpecPatch == InitPatch /\ [][NextPatch]_vars

(***************************************************************************)
(* generate_weights.py: generate_weights and main                          *)
(***************************************************************************)
ModelHashes == {"abc123", "4ed9445d"}
Blobs == {"blob-1", "blob-2"}

\* What autogen.sh of the clone holds: no file, no download line, or a hash
AutogenStates == {"<no autogen.sh>", "<no hash>"} \cup ModelHashes

\* Contents of dnn/write_lpcnet_weights.c a clone can hold
GenSources == {<<FOPEN_W, OSCE_INCLUDE, OSCE_MAIN>>,
               <<FOPEN_WB, OSCE_INCLUDE, OSCE_MAIN>>,
               <<FOPEN_ALTERED, OSCE_INCLUDE, OSCE_MAIN>>,
               <<FOPEN_W, OSCE_INCLUDE, OSCE_MAIN_ALTERED>>,
               <<FOPEN_W, OSCE_MAIN>>,
               <<FOPEN_W, BWE_ELSEWHERE>>}

\* get_model_hash
GetModelHash(autogen) == IF autogen \in ModelHashes THEN autogen ELSE None

\* bin_name with the hash left out.
BinNameNoHash(model_hash) == "opus_data.bin"

\* bin_name (lines 405-408)
BinName(model_hash) ==
    IF model_hash # None THEN "opus_data-" \o model_hash \o ".bin"
    ELSE "opus_data.bin"

\* md5_path's name (line 420)
Md5Name(bin_name) == bin_name \o ".md5"

\* What the output directory holds before a run: nothing, or the two files
\* of an earlier run
OutputDirs == {{}, {BinName("abc123"), Md5Name(BinName("abc123"))}}

InitGen ==
    /\ manifest \in Manifests
    /\ g_pc = "start" /\ g_commit = None /\ g_temp = FALSE /\ g_tree = NoGenTree
    /\ g_model_hash = None /\ g_model = FALSE /\ g_exe = FALSE /\ g_blob = None
    /\ g_out \in OutputDirs
    /\ g_exc = "" /\ g_ret = <<>> /\ g_exit = -1 /\ g_steps = <<>>
    /\ StripQuiet
    /\ PatchQuiet
    /\ StripMainQuiet
    /\ ToolQuiet

\* A step of the try block raises: control goes to the finally clause.
GenRaise(msg) == g_exc' = msg /\ g_pc' = "finally"

\* [1/9] get_vendored_commit
GenReadCommit ==
    /\ g_pc = "start"
    /\ g_commit' = ReadCommit(manifest)
    /\ g_steps' = Append(g_steps, "read_commit")
    /\ g_pc' = "mkdtemp"
    /\ UNCHANGED <<g_temp, g_tree, g_model_hash, g_model, g_exe, g_blob, g_out, g_exc,
                   g_ret, g_exit, pf_exists, pf_content>>
    /\ UNCHANGED nonGenVars

\* [2/9] tempfile.mkdtemp and build_dir.mkdir
GenMkdtemp ==
    /\ g_pc = "mkdtemp"
    /\ g_temp' = TRUE
    /\ g_steps' = Append(g_steps, "mkdtemp")
    /\ g_pc' = "clone"
    /\ UNCHANGED <<g_commit, g_tree, g_model_hash, g_model, g_exe, g_blob, g_out, g_exc,
                   g_ret, g_exit, pf_exists, pf_content>>
    /\ UNCHANGED nonGenVars

\* [3/9] clone_opus: git clone, and git checkout when a commit is pinned
GenClone ==
    /\ g_pc = "clone"
    /\ g_steps' = Append(g_steps, "clone")
    /\ \E git \in {"clone failed", "checkout failed", "ok"},
          autogen \in AutogenStates, script \in BOOLEAN, parser \in BOOLEAN,
          src_exists \in BOOLEAN, src \in GenSources :
          /\ git = "checkout failed" => g_commit # None
          /\ ~src_exists => src = <<FOPEN_W, OSCE_INCLUDE, OSCE_MAIN>>
          /\ IF git = "clone failed"
             THEN /\ GenRaise("Command failed with code 128")
                  /\ UNCHANGED <<g_tree, pf_exists, pf_content>>
             ELSE /\ g_tree' = [exists |-> TRUE, autogen |-> autogen, script |-> script,
                                 parser |-> parser]
                  /\ pf_exists' = src_exists
                  /\ pf_content' = IF src_exists THEN src ELSE <<>>
                  /\ IF git = "checkout failed"
                     THEN GenRaise("Command failed with code 1")
                     ELSE g_pc' = "model_hash" /\ UNCHANGED g_exc
    /\ UNCHANGED <<g_commit, g_temp, g_model_hash, g_model, g_exe, g_blob, g_out,
                   g_ret, g_exit>>
    /\ UNCHANGED nonGenVars

\* [4/9] get_model_hash
GenModelHash ==
    /\ g_pc = "model_hash"
    /\ g_steps' = Append(g_steps, "model_hash")
    /\ g_model_hash' = GetModelHash(g_tree.autogen)
    /\ g_pc' = "download"
    /\ UNCHANGED <<g_commit, g_temp, g_tree, g_model, g_exe, g_blob, g_out, g_exc,
                   g_ret, g_exit, pf_exists, pf_content>>
    /\ UNCHANGED nonGenVars

\* [4/9] download_model that returns without downloading when no hash was
\* found, instead of raising (lines 197-198).
GenDownloadSkipsWithoutHash ==
    /\ g_pc = "download"
    /\ g_steps' = Append(g_steps, "download")
    /\ \E ok \in BOOLEAN :
          IF g_model_hash = None
          THEN g_pc' = "patch_binary" /\ UNCHANGED <<g_model, g_exc>>
          ELSE IF ~g_tree.script
          THEN GenRaise("download_model script not found") /\ UNCHANGED g_model
          ELSE IF ~ok
          THEN GenRaise("Command failed with code 1") /\ UNCHANGED g_model
          ELSE g_model' = TRUE /\ g_pc' = "patch_binary" /\ UNCHANGED g_exc
    /\ UNCHANGED <<g_commit, g_temp, g_tree, g_model_hash, g_exe, g_blob, g_out,
                   g_ret, g_exit, pf_exists, pf_content>>
    /\ UNCHANGED nonGenVars

\* [4/9] download_model
GenDownload ==
    /\ g_pc = "download"
    /\ g_steps' = Append(g_steps, "download")
    /\ \E ok \in BOOLEAN :
          IF g_model_hash = None
          THEN GenRaise("No model hash provided - cannot download model")
                 /\ UNCHANGED g_model
          ELSE IF ~g_tree.script
          THEN GenRaise("download_model script not found") /\ UNCHANGED g_model
          ELSE IF ~ok
          THEN GenRaise("Command failed with code 1") /\ UNCHANGED g_model
          ELSE g_model' = TRUE /\ g_pc' = "patch_binary" /\ UNCHANGED g_exc
    /\ UNCHANGED <<g_commit, g_temp, g_tree, g_model_hash, g_exe, g_blob, g_out,
                   g_ret, g_exit, pf_exists, pf_content>>
    /\ UNCHANGED nonGenVars

\* [5/9] apply_binary_mode_patch
GenPatchBinary ==
    /\ g_pc = "patch_binary"
    /\ g_steps' = Append(g_steps, "patch_binary")
    /\ LET r == ApplyBinaryModePatch(pf_exists, pf_content) IN
          /\ pf_content' = r.content
          /\ IF r.outcome = "raised" THEN GenRaise(r.msg)
             ELSE g_pc' = "patch_bwe" /\ UNCHANGED g_exc
    /\ UNCHANGED <<g_commit, g_temp, g_tree, g_model_hash, g_model, g_exe, g_blob, g_out,
                   g_ret, g_exit, pf_exists>>
    /\ UNCHANGED nonGenVars

\* [6/9] apply_bwe_weights_patch
GenPatchBwe ==
    /\ g_pc = "patch_bwe"
    /\ g_steps' = Append(g_steps, "patch_bwe")
    /\ LET r == ApplyBweWeightsPatch(pf_exists, pf_content) IN
          /\ pf_content' = r.content
          /\ IF r.outcome = "raised" THEN GenRaise(r.msg)
             ELSE g_pc' = "compile" /\ UNCHANGED g_exc
    /\ UNCHANGED <<g_commit, g_temp, g_tree, g_model_hash, g_model, g_exe, g_blob, g_out,
                   g_ret, g_exit, pf_exists>>
    /\ UNCHANGED nonGenVars

\* [7/9] compile_write_weights: find_compiler, source files, compiler run
GenCompile ==
    /\ g_pc = "compile"
    /\ g_steps' = Append(g_steps, "compile")
    /\ \E compiler \in {None, "cc"}, ran \in BOOLEAN, created \in BOOLEAN :
          IF compiler = None
          THEN GenRaise("No C compiler found") /\ UNCHANGED g_exe
          ELSE IF ~pf_exists \/ ~g_tree.parser
          THEN GenRaise("Source file not found") /\ UNCHANGED g_exe
          ELSE IF ~ran
          THEN GenRaise("Command failed with code 1") /\ UNCHANGED g_exe
          ELSE IF ~created
          THEN GenRaise("Compilation failed - executable not created") /\ UNCHANGED g_exe
          ELSE g_exe' = TRUE /\ g_pc' = "run" /\ UNCHANGED g_exc
    /\ UNCHANGED <<g_commit, g_temp, g_tree, g_model_hash, g_model, g_blob, g_out,
                   g_ret, g_exit, pf_exists, pf_content>>
    /\ UNCHANGED nonGenVars

\* [8/9] run the tool, look for weights_blob.bin
GenRun ==
    /\ g_pc = "run"
    /\ g_steps' = Append(g_steps, "run")
    /\ \E ran \in BOOLEAN, blob \in Blobs \cup {None} :
          IF ~ran
          THEN GenRaise("Command failed with code 1") /\ UNCHANGED g_blob
          ELSE /\ g_blob' = blob
               /\ IF blob = None THEN GenRaise("weights_blob.bin was not created")
                  ELSE g_pc' = "publish" /\ UNCHANGED g_exc
    /\ UNCHANGED <<g_commit, g_temp, g_tree, g_model_hash, g_model, g_exe, g_out,
                   g_ret, g_exit, pf_exists, pf_content>>
    /\ UNCHANGED nonGenVars

\* [9/9] mkdir, copy2, md5 sidecar, return
GenPublish ==
    /\ g_pc = "publish"
    /\ g_steps' = Append(g_steps, "publish")
    /\ LET bin_name == BinName(g_model_hash) IN
       \E io \in {"mkdir failed", "copy failed", "sidecar failed", "ok"} :
          CASE io = "mkdir failed" ->
                 GenRaise("OSError: mkdir") /\ UNCHANGED <<g_out, g_ret>>
            [] io = "copy failed" ->
                 /\ GenRaise("OSError: copy2")
                 /\ g_out' \in {g_out, g_out \cup {bin_name}}
                 /\ UNCHANGED g_ret
            [] io = "sidecar failed" ->
                 /\ GenRaise("OSError: write_text")
                 /\ g_out' = g_out \cup {bin_name}
                 /\ UNCHANGED g_ret
            [] io = "ok" ->
                 /\ g_out' = g_out \cup {bin_name, Md5Name(bin_name)}
                 /\ g_ret' = <<bin_name, Md5Name(bin_name)>>
                 /\ g_pc' = "finally"
                 /\ UNCHANGED g_exc
    /\ UNCHANGED <<g_commit, g_temp, g_tree, g_model_hash, g_model, g_exe, g_blob,
                   g_exit, pf_exists, pf_content>>
    /\ UNCHANGED nonGenVars

\* The finally clause that removes the directory only when nothing was raised.
GenFinallyOnSuccessOnly ==
    /\ g_pc = "finally"
    /\ g_steps' = Append(g_steps, "finally")
    /\ IF g_exc = ""
       THEN /\ g_temp' = FALSE /\ g_tree' = NoGenTree /\ g_exe' = FALSE /\ g_blob' = None
            /\ g_model' = FALSE /\ pf_exists' = FALSE /\ pf_content' = <<>>
       ELSE UNCHANGED <<g_temp, g_tree, g_exe, g_blob, g_model, pf_exists, pf_content>>
    /\ g_pc' = "main"
    /\ UNCHANGED <<g_commit, g_model_hash, g_out, g_exc, g_ret, g_exit>>
    /\ UNCHANGED nonGenVars

\* finally: shutil.rmtree(temp_dir, ignore_errors=True)
GenFinally ==
    /\ g_pc = "finally"
    /\ g_steps' = Append(g_steps, "finally")
    /\ g_temp' = FALSE /\ g_tree' = NoGenTree /\ g_exe' = FALSE /\ g_blob' = None
    /\ g_model' = FALSE /\ pf_exists' = FALSE /\ pf_content' = <<>>
    /\ g_pc' = "main"
    /\ UNCHANGED <<g_commit, g_model_hash, g_out, g_exc, g_ret, g_exit>>
    /\ UNCHANGED nonGenVars

\* main: SUCCESS, or "except Exception: sys.exit(1)"
GenMain ==
    /\ g_pc = "main"
    /\ g_exit' = IF g_exc = "" THEN 0 ELSE 1
    /\ g_pc' = "done"
    /\ UNCHANGED <<g_commit, g_temp, g_tree, g_model_hash, g_model, g_exe, g_blob, g_out,
                   g_exc, g_ret, g_steps, pf_exists, pf_content>>
    /\ UNCHANGED nonGenVars

NextGen ==
    \/ GenReadCommit \/ GenMkdtemp \/ GenClone \/ GenModelHash \/ GenDownload
    \/ GenPatchBinary \/ GenPatchBwe \/ GenCompile \/ GenRun \/ GenPublish
    \/ GenFinally \/ GenMain

SpecGen == InitGen /\ [][NextGen]_vars

(***************************************************************************)
(* strip_weights.py: main                                                  *)
(***************************************************************************)
DATA_FILES == <<"pitchdnn_data.c", "fargan_data.c", "plc_data.c",
                "dred_rdovae_enc_data.c", "dred_rdovae_dec_data.c", "lace_data.c",
                "nolace_data.c", "bbwenet_data.c">>

Absent == <<>>

\* What a data file can hold: no file, an empty file, a file with weights
DataFileStates == {Absent, <<"">>, <<GUARD, DATA, DATA, ENDIF>>}

InitStripMain ==
    /\ sm_dir \in BOOLEAN
    /\ sm_files \in [1..Len(DATA_FILES) -> (IF sm_dir THEN DataFileStates ELSE {Absent})]
    /\ sm_dry_run \in BOOLEAN
    /\ sm_pc = "start" /\ sm_i = 0 /\ total_original = 0 /\ total_new = 0
    /\ sm_exc = "" /\ sm_exit = -1
    /\ StripQuiet
    /\ PatchQuiet
    /\ FsQuiet
    /\ GenQuiet
    /\ ToolQuiet

\* Lines 98-116: arguments, the test for the directory, the totals set to 0
StripMainStart ==
    /\ sm_pc = "start"
    /\ IF ~sm_dir
       THEN sm_exit' = 1 /\ sm_pc' = "done"
       ELSE sm_pc' = "loop" /\ UNCHANGED sm_exit
    /\ total_original' = 0
    /\ total_new' = 0
    /\ UNCHANGED <<sm_dir, sm_files, sm_dry_run, sm_i, sm_exc>>
    /\ UNCHANGED nonStripMainVars

\* Lines 118-131: one file of DATA_FILES
StripMainFile ==
    /\ sm_pc = "loop"
    /\ sm_i < Len(DATA_FILES)
    /\ LET content == sm_files[sm_i + 1]
           exists == content # Absent
           sizes == StripReturn(exists, content)
       IN /\ sm_files' = [sm_files EXCEPT ![sm_i + 1] =
                             IF exists THEN StripFileAfter(content, sm_dry_run)
                             ELSE Absent]
          /\ IF sizes[1] > 0
             THEN /\ total_original' = total_original + sizes[1]
                  /\ total_new' = total_new + sizes[2]
             ELSE UNCHANGED <<total_original, total_new>>
    /\ sm_i' = sm_i + 1
    /\ UNCHANGED <<sm_dir, sm_dry_run, sm_pc, sm_exc, sm_exit>>
    /\ UNCHANGED nonStripMainVars

\* Lines 133-143: the totals; line 136 divides by total_original
StripMainTotals ==
    /\ sm_pc = "loop"
    /\ sm_i = Len(DATA_FILES)
    /\ IF total_original = 0
       THEN sm_exc' = "ZeroDivisionError" /\ sm_exit' = 1
       ELSE sm_exit' = 0 /\ UNCHANGED sm_exc
    /\ sm_pc' = "done"
    /\ UNCHANGED <<sm_dir, sm_files, sm_dry_run, sm_i, total_original, total_new>>
    /\ UNCHANGED nonStripMainVars

NextStripMain == StripMainStart \/ StripMainFile \/ StripMainTotals

SpecStripMain == InitStripMain /\ [][NextStripMain]_vars

(***************************************************************************)
(* check_opus_version.py and vendor_opus.py on one project directory       *)
(***************************************************************************)
\* A vendored tree as clone_repo leaves it
Tree(commit, git, autogen, script) ==
    [exists |-> TRUE, commit |-> commit, git |-> git, autogen |-> autogen,
     script |-> script, model |-> FALSE]

\* Trees a project directory can hold before a run
InitTrees == {NoTree} \cup {Tree(c, FALSE, "abc123", TRUE) : c \in Shas}

InitTools ==
    /\ manifest \in Manifests
    /\ upstream \in Shas
    /\ tree \in InitTrees
    /\ bindings \in {None} \cup Shas
    /\ wrapper = FALSE
    /\ t_fs0 = <<manifest, tree, bindings>>
    /\ ToolLocalsIdle
    /\ StripQuiet
    /\ PatchQuiet
    /\ GenQuiet
    /\ StripMainQuiet

\* A commit is pushed to xiph/opus main
UpstreamPush ==
    /\ \E c \in Shas : c # upstream /\ upstream' = c
    /\ UNCHANGED <<manifest, tree, bindings, wrapper, tool, t_pc, t_runs, t_fs0,
                   t_lookups, t_steps, t_exc, t_exit, c_vendored, c_latest,
                   v_bindings_only, v_force, v_sha, v_current, v_model_hash, v_warnings>>
    /\ UNCHANGED nonToolVars

\* The operator starts a tool: no tool is running
ToolStart(name, first) ==
    /\ t_pc \in {"idle", "done"}
    /\ t_runs < MaxToolRuns
    /\ t_runs' = t_runs + 1
    /\ tool' = name
    /\ t_pc' = first
    /\ t_fs0' = <<manifest, tree, bindings>>
    /\ t_lookups' = 0 /\ t_steps' = <<>> /\ t_exc' = "" /\ t_exit' = -1
    /\ c_vendored' = None /\ c_latest' = None
    /\ v_sha' = None /\ v_current' = None /\ v_model_hash' = None /\ v_warnings' = {}
    /\ UNCHANGED <<manifest, upstream, tree, bindings, wrapper>>
    /\ UNCHANGED nonToolVars

\* The run ends with this exit status
ToolEnd(status) == t_exit' = status /\ t_pc' = "done"

\* ---------------- check_opus_version.py ----------------
\* python check_opus_version.py
CheckStart ==
    /\ ToolStart("check", "c_read")
    /\ UNCHANGED <<v_bindings_only, v_force>>

\* main lines 36-39 with the test for the lookup left out.
CheckReadAlwaysLookup ==
    /\ tool = "check" /\ t_pc = "c_read"
    /\ c_vendored' = ReadCommit(manifest)
    /\ t_steps' = Append(t_steps, "read")
    /\ t_pc' = "c_lookup"
    /\ UNCHANGED <<manifest, upstream, tree, bindings, wrapper, tool, t_runs, t_fs0,
                   t_lookups, t_exc, t_exit, c_latest, v_bindings_only, v_force, v_sha,
                   v_current, v_model_hash, v_warnings>>
    /\ UNCHANGED nonToolVars

\* main lines 36-39: get_vendored_commit, "No vendored version found"
CheckRead ==
    /\ tool = "check" /\ t_pc = "c_read"
    /\ c_vendored' = ReadCommit(manifest)
    /\ t_steps' = Append(t_steps, "read")
    /\ IF ReadCommit(manifest) = None
       THEN ToolEnd(1)
       ELSE t_pc' = "c_lookup" /\ UNCHANGED t_exit
    /\ UNCHANGED <<manifest, upstream, tree, bindings, wrapper, tool, t_runs, t_fs0,
                   t_lookups, t_exc, c_latest, v_bindings_only, v_force, v_sha,
                   v_current, v_model_hash, v_warnings>>
    /\ UNCHANGED nonToolVars

\* main line 41: get_latest_commit; a transport error is not caught
CheckLookup ==
    /\ tool = "check" /\ t_pc = "c_lookup"
    /\ t_lookups' = t_lookups + 1
    /\ t_steps' = Append(t_steps, "lookup")
    /\ \E ok \in BOOLEAN :
          IF ok
          THEN c_latest' = upstream /\ t_pc' = "c_compare" /\ UNCHANGED <<t_exc, t_exit>>
          ELSE t_exc' = "URLError" /\ ToolEnd(1) /\ UNCHANGED c_latest
    /\ UNCHANGED <<manifest, upstream, tree, bindings, wrapper, tool, t_runs, t_fs0,
                   c_vendored, v_bindings_only, v_force, v_sha, v_current, v_model_hash,
                   v_warnings>>
    /\ UNCHANGED nonToolVars

\* main lines 46-51
CheckCompare ==
    /\ tool = "check" /\ t_pc = "c_compare"
    /\ t_steps' = Append(t_steps, "compare")
    /\ IF c_vendored = c_latest THEN ToolEnd(0) ELSE ToolEnd(1)
    /\ UNCHANGED <<manifest, upstream, tree, bindings, wrapper, tool, t_runs, t_fs0,
                   t_lookups, t_exc, c_vendored, c_latest, v_bindings_only, v_force,
                   v_sha, v_current, v_model_hash, v_warnings>>
    /\ UNCHANGED nonToolVars

\* ---------------- vendor_opus.py ----------------
\* python vendor_opus.py [--bindings-only] [--force]
VendorStart ==
    /\ \E bo \in BOOLEAN, force \in BOOLEAN :
          /\ v_bindings_only' = bo
          /\ v_force' = force
          /\ ToolStart("vendor", IF bo THEN "v_bindings_only" ELSE "v_lookup")

\* main lines 246-253: --bindings-only needs the vendored tree
VendorBindingsOnly ==
    /\ tool = "vendor" /\ t_pc = "v_bindings_only"
    /\ t_steps' = Append(t_steps, "bindings_only")
    /\ IF ~tree.exists
       THEN ToolEnd(1)
       ELSE t_pc' = "v_wrapper" /\ UNCHANGED t_exit
    /\ UNCHANGED <<manifest, upstream, tree, bindings, wrapper, tool, t_runs, t_fs0,
                   t_lookups, t_exc, c_vendored, c_latest, v_bindings_only, v_force,
                   v_sha, v_current, v_model_hash, v_warnings>>
    /\ UNCHANGED nonToolVars

\* main lines 261-266 without the except clause of lines 267-273: the error
\* of the lookup leaves main.
VendorLookupUncaught ==
    /\ tool = "vendor" /\ t_pc = "v_lookup"
    /\ t_lookups' = t_lookups + 1
    /\ t_steps' = Append(t_steps, "lookup")
    /\ \E ok \in BOOLEAN :
          IF ok
          THEN v_sha' = upstream /\ t_pc' = "v_uptodate" /\ UNCHANGED <<t_exc, t_exit>>
          ELSE t_exc' = "URLError" /\ ToolEnd(1) /\ UNCHANGED v_sha
    /\ UNCHANGED <<manifest, upstream, tree, bindings, wrapper, tool, t_runs, t_fs0,
                   c_vendored, c_latest, v_bindings_only, v_force,
                   v_current, v_model_hash, v_warnings>>
    /\ UNCHANGED nonToolVars

\* main lines 261-273: get_latest_commit_info; an error gives sha "unknown"
VendorLookup ==
    /\ tool = "vendor" /\ t_pc = "v_lookup"
    /\ t_lookups' = t_lookups + 1
    /\ t_steps' = Append(t_steps, "lookup")
    /\ \E ok \in BOOLEAN :
          IF ok
          THEN v_sha' = upstream /\ UNCHANGED v_warnings
          ELSE /\ v_sha' = "unknown"
               /\ v_warnings' = v_warnings \cup {"Could not fetch commit info"}
    /\ t_pc' = "v_uptodate"
    /\ UNCHANGED <<manifest, upstream, tree, bindings, wrapper, tool, t_runs, t_fs0,
                   t_exc, t_exit, c_vendored, c_latest, v_bindings_only, v_force,
                   v_current, v_model_hash>>
    /\ UNCHANGED nonToolVars

\* The test of main lines 277-278
UpToDateIgnoringForce(current, sha, force) ==
    current # None /\ sha # "unknown" /\ current = sha

UpToDate(current, sha, force) ==
    current # None /\ sha # "unknown" /\ current = sha /\ ~force

\* main lines 276-286: the up-to-date short-circuit
VendorUpToDate ==
    /\ tool = "vendor" /\ t_pc = "v_uptodate"
    /\ v_current' = ReadCommit(manifest)
    /\ IF UpToDate(ReadCommit(manifest), v_sha, v_force)
       THEN t_steps' = Append(t_steps, "no update needed") /\ ToolEnd(0)
       ELSE t_steps' = Append(t_steps, "update") /\ t_pc' = "v_clone" /\ UNCHANGED t_exit
    /\ UNCHANGED <<manifest, upstream, tree, bindings, wrapper, tool, t_runs, t_fs0,
                   t_lookups, t_exc, c_vendored, c_latest, v_bindings_only, v_force,
                   v_sha, v_model_hash, v_warnings>>
    /\ UNCHANGED nonToolVars

\* main lines 289-300 with line 297 left out: commit_info keeps the sha of
\* the lookup.
VendorCloneKeepLookupSha ==
    /\ tool = "vendor" /\ t_pc = "v_clone"
    /\ t_steps' = Append(t_steps, "clone")
    /\ \E git \in {"clone failed", "rev-parse failed", "ok"},
          autogen \in AutogenStates, script \in BOOLEAN :
          /\ git # "ok" => (autogen = "abc123" /\ script)
          /\ CASE git = "clone failed" ->
                    /\ tree' = NoTree
                    /\ ToolEnd(1)
               [] git = "rev-parse failed" ->
                    /\ tree' = Tree(upstream, TRUE, autogen, script)
                    /\ ToolEnd(1)
               [] git = "ok" ->
                    /\ tree' = Tree(upstream, FALSE, autogen, script)
                    /\ t_pc' = "v_version"
                    /\ UNCHANGED t_exit
    /\ wrapper' = FALSE
    /\ UNCHANGED <<manifest, upstream, bindings, tool, t_runs, t_fs0, t_lookups, t_exc,
                   c_vendored, c_latest, v_bindings_only, v_force, v_sha, v_current,
                   v_model_hash, v_warnings>>
    /\ UNCHANGED nonToolVars

\* main lines 289-300 and clone_repo: rmtree, git clone, rev-parse, rm .git
VendorClone ==
    /\ tool = "vendor" /\ t_pc = "v_clone"
    /\ t_steps' = Append(t_steps, "clone")
    /\ \E git \in {"clone failed", "rev-parse failed", "ok"},
          autogen \in AutogenStates, script \in BOOLEAN :
          /\ git # "ok" => (autogen = "abc123" /\ script)
          /\ CASE git = "clone failed" ->
                    /\ tree' = NoTree
                    /\ ToolEnd(1)
                    /\ UNCHANGED v_sha
               [] git = "rev-parse failed" ->
                    /\ tree' = Tree(upstream, TRUE, autogen, script)
                    /\ ToolEnd(1)
                    /\ UNCHANGED v_sha
               [] git = "ok" ->
                    /\ tree' = Tree(upstream, FALSE, autogen, script)
                    /\ v_sha' = upstream
                    /\ t_pc' = "v_version"
                    /\ UNCHANGED t_exit
    /\ wrapper' = FALSE
    /\ UNCHANGED <<manifest, upstream, bindings, tool, t_runs, t_fs0, t_lookups, t_exc,
                   c_vendored, c_latest, v_bindings_only, v_force, v_current,
                   v_model_hash, v_warnings>>
    /\ UNCHANGED nonToolVars

\* main lines 303-304: generate_version_file
VendorVersionFile ==
    /\ tool = "vendor" /\ t_pc = "v_version"
    /\ t_steps' = Append(t_steps, "version_file")
    /\ manifest' = v_sha
    /\ t_pc' = "v_model"
    /\ UNCHANGED <<upstream, tree, bindings, wrapper, tool, t_runs, t_fs0, t_lookups,
                   t_exc, t_exit, c_vendored, c_latest, v_bindings_only, v_force, v_sha,
                   v_current, v_model_hash, v_warnings>>
    /\ UNCHANGED nonToolVars

\* main lines 307-313 without the try/except: a failing download command
\* ends the run.
VendorModelUncaught ==
    /\ tool = "vendor" /\ t_pc = "v_model"
    /\ t_steps' = Append(t_steps, "model")
    /\ LET model_hash == GetModelHash(tree.autogen) IN
       /\ v_model_hash' = model_hash
       /\ \E ok \in BOOLEAN :
             IF model_hash = None
             THEN /\ v_warnings' = v_warnings \cup {"no model hash"}
                  /\ t_pc' = "v_wrapper"
                  /\ UNCHANGED <<tree, t_exc, t_exit>>
             ELSE IF ~tree.script
             THEN /\ v_warnings' = v_warnings \cup {"download script not found"}
                  /\ t_pc' = "v_wrapper"
                  /\ UNCHANGED <<tree, t_exc, t_exit>>
             ELSE IF ~ok
             THEN /\ t_exc' = "RuntimeError: Command failed"
                  /\ ToolEnd(1)
                  /\ UNCHANGED <<tree, v_warnings>>
             ELSE /\ tree' = [tree EXCEPT !.model = TRUE]
                  /\ t_pc' = "v_wrapper"
                  /\ UNCHANGED <<v_warnings, t_exc, t_exit>>
    /\ UNCHANGED <<manifest, upstream, bindings, wrapper, tool, t_runs, t_fs0, t_lookups,
                   c_vendored, c_latest, v_bindings_only, v_force, v_sha, v_current>>
    /\ UNCHANGED nonToolVars

\* main lines 307-313: parse_autogen_for_model_hash, download_opus_model
VendorModel ==
    /\ tool = "vendor" /\ t_pc = "v_model"
    /\ t_steps' = Append(t_steps, "model")
    /\ LET model_hash == GetModelHash(tree.autogen) IN
       /\ v_model_hash' = model_hash
       /\ \E ok \in BOOLEAN :
             IF model_hash = None
             THEN /\ v_warnings' = v_warnings \cup {"no model hash"}
                  /\ UNCHANGED tree
             ELSE IF ~tree.script
             THEN /\ v_warnings' = v_warnings \cup {"download script not found"}
                  /\ UNCHANGED tree
             ELSE IF ~ok
             THEN /\ v_warnings' = v_warnings \cup {"model download failed (may be OK)"}
                  /\ UNCHANGED tree
             ELSE /\ tree' = [tree EXCEPT !.model = TRUE]
                  /\ UNCHANGED v_warnings
    /\ t_pc' = "v_wrapper"
    /\ UNCHANGED <<manifest, upstream, bindings, wrapper, tool, t_runs, t_fs0, t_lookups,
                   t_exc, t_exit, c_vendored, c_latest, v_bindings_only, v_force, v_sha,
                   v_current>>
    /\ UNCHANGED nonToolVars

\* generate_bindings lines 173-197: the wrapper header is written
VendorWrapper ==
    /\ tool = "vendor" /\ t_pc = "v_wrapper"
    /\ t_steps' = Append(t_steps, "wrapper")
    /\ wrapper' = TRUE
    /\ t_pc' = "v_bindgen"
    /\ UNCHANGED <<manifest, upstream, tree, bindings, tool, t_runs, t_fs0, t_lookups,
                   t_exc, t_exit, c_vendored, c_latest, v_bindings_only, v_force, v_sha,
                   v_current, v_model_hash, v_warnings>>
    /\ UNCHANGED nonToolVars

\* generate_bindings lines 199-213 with the unlink of lines 214-216 done
\* only after a successful bindgen.
VendorBindgenUnlinkOnSuccess ==
    /\ tool = "vendor" /\ t_pc = "v_bindgen"
    /\ t_steps' = Append(t_steps, "bindgen")
    /\ \E ok \in BOOLEAN :
          IF ok
          THEN /\ bindings' = tree.commit /\ ToolEnd(0) /\ UNCHANGED t_exc
               /\ wrapper' = FALSE
          ELSE /\ t_exc' = "RuntimeError: bindgen failed" /\ ToolEnd(1)
               /\ UNCHANGED <<bindings, wrapper>>
    /\ UNCHANGED <<manifest, upstream, tree, tool, t_runs, t_fs0, t_lookups,
                   c_vendored, c_latest, v_bindings_only, v_force, v_sha,
                   v_current, v_model_hash, v_warnings>>
    /\ UNCHANGED nonToolVars

\* generate_bindings lines 199-216: bindgen, except, finally; main returns
VendorBindgen ==
    /\ tool = "vendor" /\ t_pc = "v_bindgen"
    /\ t_steps' = Append(t_steps, "bindgen")
    /\ \E ok \in BOOLEAN :
          IF ok
          THEN bindings' = tree.commit /\ ToolEnd(0) /\ UNCHANGED t_exc
          ELSE t_exc' = "RuntimeError: bindgen failed" /\ ToolEnd(1) /\ UNCHANGED bindings
    /\ wrapper' = FALSE
    /\ UNCHANGED <<manifest, upstream, tree, tool, t_runs, t_fs0, t_lookups,
                   c_vendored, c_latest, v_bindings_only, v_force, v_sha,
                   v_current, v_model_hash, v_warnings>>
    /\ UNCHANGED nonToolVars

NextTools ==
    \/ UpstreamPush
    \/ CheckStart \/ CheckRead \/ CheckLookup \/ CheckCompare
    \/ VendorStart \/ VendorBindingsOnly \/ VendorLookup \/ VendorUpToDate
    \/ VendorClone \/ VendorVersionFile \/ VendorModel \/ VendorWrapper \/ VendorBindgen

SpecTools == InitTools /\ [][NextTools]_vars

(***************************************************************************)
(* Claims about strip_weights_from_file (SpecStrip)                        *)
(***************************************************************************)
IsGuardLine(l) == StrStrip(l) = GUARD
IsIfLine(l) == StartsWithIf(StrStrip(l))
IsEndifLine(l) == StartsWithEndif(StrStrip(l))
IsDirective(l) == IsIfLine(l) \/ IsEndifLine(l)

\* ls holds exactly one guarded region, opened at i and closed at j, whose
\* body holds no conditional directive.
SingleFlatRegion(ls, i, j) ==
    /\ i \in 1..Len(ls) /\ j \in 1..Len(ls) /\ i < j
    /\ IsGuardLine(ls[i])
    /\ IsEndifLine(ls[j])
    /\ \A k \in (i + 1)..(j - 1) : ~IsDirective(ls[k])
    /\ \A k \in 1..Len(ls) : IsGuardLine(ls[k]) => k = i

StripDone == sw_pc = "done" /\ sw_exists

\* C1: for an input with exactly one guarded region whose body has no nested
\* conditional directive, the computed output is the lines before the guard,
\* the guard line, the inserted comment line, the closing #endif line and the
\* lines after it: no line of the region body is copied, all of them are
\* counted as removed; when the call writes, that output is the file.
C1_SingleRegionStripped ==
    StripDone =>
        \A i, j \in 1..Len(lines) :
            SingleFlatRegion(lines, i, j) =>
                /\ new_lines = SubSeq(lines, 1, i - 1)
                                 \o <<lines[i], COMMENT, lines[j]>>
                                 \o SubSeq(lines, j + 1, Len(lines))
                /\ removed_lines = j - i - 1
                /\ (~sw_dry_run /\ removed_lines > 0) => sw_file = new_lines

C1_Witness ==
    /\ StripDone /\ sw_runs = 0 /\ ~sw_dry_run
    /\ Len(lines) = 5
    /\ SingleFlatRegion(lines, 2, 4)
    /\ lines[3] = DATA
    /\ sw_file = <<lines[1], GUARD, COMMENT, lines[4], lines[5]>>

\* Preprocessor nesting of ls[1..k]: the number of conditionals still open.
RECURSIVE OpenAt(_, _)
OpenAt(ls, k) ==
    IF k = 0 THEN 0
    ELSE OpenAt(ls, k - 1)
           + (IF IsIfLine(ls[k]) THEN 1 ELSE IF IsEndifLine(ls[k]) THEN -1 ELSE 0)

\* Every #endif closes an open conditional and every conditional is closed.
WellFormed(ls) ==
    /\ \A k \in 1..Len(ls) : OpenAt(ls, k) >= 0
    /\ OpenAt(ls, Len(ls)) = 0

\* The #endif at j closes the conditional opened at i.
Matches(ls, i, j) ==
    /\ i < j /\ IsIfLine(ls[i]) /\ IsEndifLine(ls[j])
    /\ OpenAt(ls, j) = OpenAt(ls, i) - 1
    /\ \A k \in i..(j - 1) : OpenAt(ls, k) >= OpenAt(ls, i)

\* The guard line at i lies inside no other guarded region.
OutermostGuard(ls, i) ==
    /\ IsGuardLine(ls[i])
    /\ ~\E g \in 1..(i - 1), e \in (i + 1)..Len(ls) :
            IsGuardLine(ls[g]) /\ Matches(ls, g, e)

\* A guard line inside another guarded region.
NestedGuard(ls) ==
    \E i \in 1..Len(ls) : IsGuardLine(ls[i]) /\ ~OutermostGuard(ls, i)

\* C2: on a well-formed input the depth counter reaches zero only at the
\* #endif matching an outermost #ifndef USE_WEIGHTS_FILE, and that #endif is
\* the next line copied after the comment.
C2_ZeroOnlyAtOuterEndif ==
    (StripDone /\ WellFormed(lines)) =>
        \A j \in sw_zero_at :
            \E i \in 1..Len(lines) : OutermostGuard(lines, i) /\ Matches(lines, i, j)

\* The same statement for inputs in which no guard line is nested inside a
\* guarded region.
C2_ZeroOnlyAtOuterEndif_NoNestedGuard ==
    (StripDone /\ WellFormed(lines) /\ ~NestedGuard(lines)) =>
        /\ \A j \in sw_zero_at :
              \E i \in 1..Len(lines) : OutermostGuard(lines, i) /\ Matches(lines, i, j)
        /\ \A i, j \in 1..Len(lines) :
              (OutermostGuard(lines, i) /\ Matches(lines, i, j)) => j \in sw_zero_at

C2_NoNestedGuard_Witness ==
    /\ StripDone /\ WellFormed(lines) /\ ~NestedGuard(lines)
    /\ Len(lines) = 5
    /\ lines[1] = GUARD /\ lines[2] = IFDEF /\ IsEndifLine(lines[3])
    /\ lines[4] = DATA /\ IsEndifLine(lines[5])
    /\ sw_zero_at = {5}
    /\ new_lines = <<GUARD, COMMENT, lines[5]>>

\* C3: stripping is idempotent: stripping the output of a call gives that
\* output again, and a second run on the same file leaves the file as the
\* first run left it.
C3_StripIdempotent ==
    StripDone =>
        /\ StripContent(new_lines) = new_lines
        /\ sw_runs >= 1 => sw_file = sw_prev

C3_Witness ==
    /\ StripDone /\ sw_runs = 1 /\ ~sw_dry_run
    /\ sw_first # sw_prev
    /\ sw_prev = <<GUARD, COMMENT, ENDIF, DATA>>
    /\ removed_lines = 1
    /\ sw_file = sw_prev

(***************************************************************************)
(* Claims about the two source patches (SpecPatch)                         *)
(***************************************************************************)
\* C4: each patch is idempotent: once an application of a patch has
\* succeeded, every later application of that patch succeeds, is detected as
\* already applied and leaves the file as it found it, which for the next
\* application is the content the first one left.
C4_PatchIdempotent ==
    \A i, j \in 1..Len(pt_log) :
        (i < j /\ pt_log[i].patch = pt_log[j].patch /\ pt_log[i].outcome # "raised") =>
            /\ pt_log[j].outcome = "already"
            /\ pt_log[j].after = pt_log[j].before
            /\ (j = i + 1 => pt_log[j].after = pt_log[i].after)

C4_Witness ==
    /\ Len(pt_log) = 4
    /\ pt_log[1].patch = "binary" /\ pt_log[1].outcome = "applied"
    /\ pt_log[1].before # pt_log[1].after
    /\ pt_log[2].patch = "binary" /\ pt_log[2].outcome = "already"
    /\ pt_log[3].patch = "bwe" /\ pt_log[3].outcome = "applied"
    /\ pt_log[3].before # pt_log[3].after
    /\ pt_log[4].patch = "bwe" /\ pt_log[4].outcome = "already"
    /\ pf_content = pt_log[3].after

\* The anchor text of a patch is absent from the content (or altered).
AnchorMissing(patch, content) ==
    IF patch = "binary" THEN ~HasOldLine(content)
    ELSE ~HasOldInclude(content) \/ ~HasOldMain(content)

\* The content holds the text the patch puts in.
HoldsNewLine(f) == f = FOPEN_WB
HoldsNewInclude(f) == f \in {OSCE_INCLUDE_BWE, OSCE_INCLUDE_BWE2}
HoldsNewMain(f) == f = OSCE_MAIN_BWE
Patched(patch, content) ==
    IF patch = "binary" THEN \E k \in 1..Len(content) : HoldsNewLine(content[k])
    ELSE /\ \E k \in 1..Len(content) : HoldsNewInclude(content[k])
         /\ \E k \in 1..Len(content) : HoldsNewMain(content[k])

\* The content holds the text by which the patch detects itself.
HoldsSignature(patch, content) ==
    IF patch = "binary" THEN HasWb(content)
    ELSE HasBweMacro(content)

\* C5 as stated: when the anchor text of a patch is absent or altered the
\* patch raises; it never returns normally while leaving the file unpatched
\* (checked in its weakest reading: a normal return with the anchor absent
\* is allowed when the file holds the patched text).
C5_AnchorMismatchRaises ==
    \A k \in 1..Len(pt_log) :
        (pf_exists /\ AnchorMissing(pt_log[k].patch, pt_log[k].before)) =>
            \/ pt_log[k].outcome = "raised"
            \/ Patched(pt_log[k].patch, pt_log[k].after)

\* C5 amended: when the source holds neither the signature text of the patch
\* nor its anchor text the patch raises a descriptive failure; a failure
\* leaves the file as it was; a normal return leaves a file that holds the
\* signature text, and when the signature was there before, the file is
\* returned untouched whatever the anchor.
C5_AnchorMismatchRaisesUnlessSigned ==
    \A k \in 1..Len(pt_log) :
        LET e == pt_log[k] IN
        /\ (pf_exists /\ AnchorMissing(e.patch, e.before)
                /\ ~HoldsSignature(e.patch, e.before)) =>
              /\ e.outcome = "raised"
              /\ e.msg \in {"Could not find fopen line to patch",
                            "Could not find OSCE include block to patch",
                            "Could not find main() block to patch"}
        /\ e.outcome = "raised" => (e.after = e.before /\ e.msg # "")
        /\ e.outcome # "raised" => HoldsSignature(e.patch, e.after)
        /\ (pf_exists /\ HoldsSignature(e.patch, e.before)) =>
              (e.outcome = "already" /\ e.after = e.before)

C5_Witness ==
    /\ Len(pt_log) = 2
    /\ pt_log[1].patch = "binary" /\ pt_log[1].outcome = "raised"
    /\ pt_log[1].msg = "Could not find fopen line to patch"
    /\ pt_log[1].before = <<FOPEN_ALTERED, OSCE_INCLUDE, OSCE_MAIN_ALTERED>>
    /\ pt_log[2].patch = "bwe" /\ pt_log[2].outcome = "raised"
    /\ pt_log[2].msg = "Could not find main() block to patch"
    /\ pf_content = pt_log[1].before

(***************************************************************************)
(* Claims about generate_weights (SpecGen)                                 *)
(***************************************************************************)
GenSucceeded == g_pc = "done" /\ g_exit = 0

\* C7: in every successful run the blob is written to the output directory
\* as opus_data-<model-hash>.bin when a model hash was resolved and as
\* opus_data.bin when none was, and the sidecar as that name followed by
\* .md5; for the hash abc123 the two names are opus_data-abc123.bin and
\* opus_data-abc123.bin.md5.
C7_OutputNaming ==
    GenSucceeded =>
        LET blob_file == IF g_model_hash # None
                         THEN "opus_data-" \o g_model_hash \o ".bin"
                         ELSE "opus_data.bin"
        IN /\ g_ret = <<blob_file, blob_file \o ".md5">>
           /\ {blob_file, blob_file \o ".md5"} \subseteq g_out
           /\ g_model_hash = "abc123" =>
                 g_ret = <<"opus_data-abc123.bin", "opus_data-abc123.bin.md5">>

C7_Witness ==
    /\ GenSucceeded
    /\ g_model_hash = "4ed9445d"
    /\ g_ret = <<"opus_data-4ed9445d.bin", "opus_data-4ed9445d.bin.md5">>
    /\ g_out = {"opus_data-abc123.bin", "opus_data-abc123.bin.md5",
                "opus_data-4ed9445d.bin", "opus_data-4ed9445d.bin.md5"}

\* generate_weights has created its temporary directory and has exited.
GenExited == g_pc \in {"main", "done"}

\* C8: whenever generate_weights has exited, by return or by an exception
\* raised at any step of the try block, the temporary directory is gone.
C8_TempRemovedOnExit ==
    GenExited => (~g_temp /\ g_steps[2] = "mkdtemp" /\ g_tree = NoGenTree /\ ~pf_exists)

C8_Witness ==
    /\ g_pc = "done" /\ g_exit = 1
    /\ g_exc = "No C compiler found"
    /\ g_steps = <<"read_commit", "mkdtemp", "clone", "model_hash", "download",
                   "patch_binary", "patch_bwe", "compile", "finally">>
    /\ ~g_temp

(***************************************************************************)
(* Claims about main of strip_weights.py (SpecStripMain)                   *)
(***************************************************************************)
\* C9: the tool exits 1 if and only if the vendored DNN directory is absent;
\* whenever the directory exists it exits 0, also when some or all of the
\* listed data files are missing.
C9_ExitOneIffDirAbsent ==
    sm_pc = "done" => (sm_exit = 1 <=> ~sm_dir) /\ (sm_dir => sm_exit = 0)

\* The same statement for runs in which some listed file exists and is not
\* empty.
C9_ExitZeroWhenSomeFileHasBytes ==
    (sm_pc = "done" /\ sm_dir /\ \E k \in 1..Len(DATA_FILES) : sm_files[k] \notin {Absent, <<"">>})
        => sm_exit = 0

(***************************************************************************)
(* Claims about check_opus_version.py and vendor_opus.py (SpecTools)       *)
(***************************************************************************)
\* manifest, vendored tree and bindings file
ProjectFiles == <<manifest, tree, bindings>>

LastStep == IF t_steps = <<>> THEN "" ELSE t_steps[Len(t_steps)]

StepTaken(step) == \E k \in 1..Len(t_steps) : t_steps[k] = step

\* C6: the version checker exits 0 when the commit of the manifest equals
\* the revision the lookup returned and 1 when they differ; with no manifest,
\* or none with a commit line, it exits 1 without any remote lookup; at no
\* point of a run has it changed a file.
C6_CheckerExitStatus ==
    tool = "check" =>
        /\ ProjectFiles = t_fs0
        /\ t_pc = "done" =>
              /\ ReadCommit(manifest) = None => (t_exit = 1 /\ t_lookups = 0)
              /\ (ReadCommit(manifest) # None /\ t_exc = "") =>
                    /\ t_lookups = 1
                    /\ ReadCommit(manifest) = c_latest => t_exit = 0
                    /\ ReadCommit(manifest) # c_latest => t_exit = 1

C6_Witness ==
    /\ tool = "check" /\ t_pc = "done" /\ t_runs = 2
    /\ manifest = "b2b2b2b2" /\ c_latest = "b2b2b2b2"
    /\ t_steps = <<"read", "lookup", "compare">>
    /\ t_exit = 0

\* C10: on the default path the vendoring tool stops with success at the
\* up-to-date test exactly when the manifest holds a commit, that commit
\* equals the revision the lookup returned and --force is not set, and then
\* manifest, vendored tree and bindings file are as they were when the run
\* started; in every other case the next step is the clone that replaces
\* the vendored tree.  Nothing is written before that test.
C10_UpToDateShortCircuit ==
    (tool = "vendor" /\ ~v_bindings_only) =>
        /\ ~StepTaken("clone") => ProjectFiles = t_fs0
        /\ LastStep = "no update needed" =>
              /\ t_pc = "done" /\ t_exit = 0
              /\ manifest # NoFile /\ ReadCommit(manifest) = v_sha /\ ~v_force
        /\ t_pc = "v_clone" =>
              /\ LastStep = "update"
              /\ \/ v_force
                 \/ ReadCommit(manifest) = None
                 \/ ReadCommit(manifest) # v_sha
        /\ (t_pc = "done" /\ ~StepTaken("clone")) => LastStep = "no update needed"

C10_Witness ==
    /\ tool = "vendor" /\ ~v_bindings_only /\ ~v_force /\ t_runs = 2
    /\ t_pc = "done" /\ t_exit = 0
    /\ t_steps = <<"lookup", "no update needed">>
    /\ manifest = "b2b2b2b2" /\ tree.commit = "b2b2b2b2" /\ bindings = "b2b2b2b2"
    /\ ProjectFiles = t_fs0

\* C11: after any sequence of vendoring runs, a manifest written by a run
\* holds in its commit field the full revision identifier that rev-parse
\* resolved in the clone the run captured: never the placeholder "unknown",
\* never the revision of the lookup when the clone is at another one.  The
\* manifest is written only after the clone of the run has succeeded (the
\* vendored tree exists and its .git directory is gone); a run that has not
\* reached that step leaves the manifest as it found it.
C11_ManifestCommitIsClonedRevision ==
    /\ StepTaken("version_file") =>
          /\ tool = "vendor" /\ ~v_bindings_only
          /\ \E k \in 1..Len(t_steps) :
                t_steps[k] = "clone" /\ k < Len(t_steps) /\ t_steps[k + 1] = "version_file"
          /\ manifest \in Shas
          /\ ReadCommit(manifest) = manifest
          /\ tree.exists /\ ~tree.git
          /\ manifest = tree.commit
          /\ manifest = v_sha
    /\ ~StepTaken("version_file") => manifest = t_fs0[1]

\* The lookup of the second run answered b2b2b2b2 (the run did not stop at
\* the up-to-date test although the manifest held a1a1a1a1 and --force was
\* not given), the clone was taken at a1a1a1a1 after a push, and the
\* manifest names the cloned revision.
C11_Witness ==
    /\ tool = "vendor" /\ ~v_bindings_only /\ ~v_force /\ t_runs = 2
    /\ t_pc = "done" /\ t_exit = 0
    /\ t_steps = <<"lookup", "update", "clone", "version_file", "model", "wrapper",
                   "bindgen">>
    /\ v_current = "a1a1a1a1"
    /\ "Could not fetch commit info" \notin v_warnings
    /\ tree.commit = "a1a1a1a1"
    /\ manifest = "a1a1a1a1"

\* C12: with dry_run set the call writes nothing: at every point of every
\* call the file holds the content it had before the first call, whatever
\* that content is; the call still returns the size in bytes of the content
\* it read and the size of the stripped content it computed (0 and 0 for a
\* file that does not exist).
C12_DryRunWritesNothing ==
    sw_dry_run =>
        /\ sw_file = sw_first
        /\ sw_file = sw_prev
        /\ sw_pc = "done" =>
              /\ sw_exists =>
                    /\ sw_result = <<ContentBytes(sw_first),
                                     ContentBytes(StripContent(sw_first))>>
                    /\ new_lines = StripContent(sw_first)
              /\ ~sw_exists => sw_result = <<0, 0>>

C12_Witness ==
    /\ StripDone /\ sw_dry_run /\ sw_runs = 1
    /\ sw_first = <<GUARD, DATA, DATA, ENDIF, DATA>>
    /\ removed_lines = 2
    /\ new_lines = <<GUARD, COMMENT, ENDIF, DATA>>
    /\ sw_file = <<GUARD, DATA, DATA, ENDIF, DATA>>
    /\ sw_result = <<ContentBytes(<<GUARD, DATA, DATA, ENDIF, DATA>>),
                     ContentBytes(<<GUARD, COMMENT, ENDIF, DATA>>)>>
    /\ sw_result[1] # sw_result[2]

\* Warnings of the model step: no hash in autogen.sh, no download script,
\* download command failed.
ModelWarnings == {"no model hash", "download script not found",
                  "model download failed (may be OK)"}

\* C13: on the default path of the vendoring tool a failure of the
\* model-hash lookup or of the model download is logged as a warning and
\* does not end the run: once the model step has been taken without the
\* model arriving, a warning of that step is in the log, the manifest written
\* before the step is in place, no exception left the step, and the run goes
\* on to the wrapper header and to bindgen, so that a run that has ended has
\* run bindgen and can only have failed there.
C13_ModelFailureIsWarning ==
    (tool = "vendor" /\ ~v_bindings_only /\ StepTaken("model")) =>
        /\ ~tree.model <=> (v_warnings \cap ModelWarnings # {})
        /\ manifest = v_sha /\ manifest = tree.commit
        /\ t_pc \in {"v_wrapper", "v_bindgen", "done"}
        /\ LastStep = "model" => (t_pc = "v_wrapper" /\ t_exit = -1 /\ t_exc = "")
        /\ t_pc = "done" =>
              /\ LastStep = "bindgen"
              /\ t_exit = 1 <=> t_exc = "RuntimeError: bindgen failed"
              /\ t_exit = 0 => bindings = tree.commit

C13_Witness ==
    /\ tool = "vendor" /\ ~v_bindings_only
    /\ t_pc = "done" /\ t_exit = 0
    /\ t_steps = <<"lookup", "update", "clone", "version_file", "model", "wrapper",
                   "bindgen">>
    /\ v_model_hash = "abc123" /\ tree.script
    /\ v_warnings = {"model download failed (may be OK)"}
    /\ ~tree.model
    /\ manifest = "b2b2b2b2" /\ bindings = "b2b2b2b2"

\* The remote lookup of the run has failed.
LookupFailed == t_exc = "URLError" \/ "Could not fetch commit info" \in v_warnings

\* C14 as stated: in the version checker and in the vendoring tool an error
\* of the remote lookup is not retried and ends the run as a failure, and
\* the run has changed neither the vendored tree nor the manifest nor the
\* bindings file (checked in its weakest reading: after the error no file
\* differs from what the run found, and a run that has ended has failed).
C14_LookupErrorEndsRun ==
    LookupFailed =>
        /\ t_lookups = 1
        /\ t_pc = "done" => t_exit = 1
        /\ ProjectFiles = t_fs0

\* C14 amended: no tool repeats the lookup.  In the version checker an error
\* of the lookup leaves main uncaught: the run ends there with status 1 and
\* has changed no file.  In the vendoring tool the error is caught and
\* printed as a warning, the revision becomes the placeholder "unknown",
\* the run does not stop at the up-to-date test and goes on to the clone,
\* which replaces the vendored tree; the run has changed no file up to the
\* clone.
C14_LookupErrorByTool ==
    /\ t_lookups <= 1
    /\ (tool = "check" /\ LookupFailed) =>
          /\ t_pc = "done" /\ t_exit = 1 /\ LastStep = "lookup"
          /\ ProjectFiles = t_fs0
    /\ tool = "vendor" => t_exc # "URLError"
    /\ (tool = "vendor" /\ LookupFailed) =>
          /\ t_steps[1] = "lookup"
          /\ ~StepTaken("clone") => (v_sha = "unknown" /\ ProjectFiles = t_fs0)
          /\ ~StepTaken("no update needed")
          /\ t_pc = "done" => StepTaken("clone")
          /\ t_pc = "v_clone" => LastStep = "update"

C14_Witness ==
    /\ tool = "vendor" /\ ~v_bindings_only /\ ~v_force /\ t_runs = 2
    /\ "Could not fetch commit info" \in v_warnings
    /\ t_lookups = 1
    /\ t_pc = "done" /\ t_exit = 0 /\ t_exc = ""
    /\ t_fs0 = <<"a1a1a1a1", Tree("a1a1a1a1", FALSE, "abc123", TRUE), "a1a1a1a1">>
    /\ manifest = "b2b2b2b2" /\ tree.commit = "b2b2b2b2" /\ bindings = "b2b2b2b2"

\* C15: with --bindings-only the vendoring tool makes no remote lookup and
\* no clone and does not write the manifest (manifest and vendored tree stay
\* as the run found them).  When the vendored tree is absent the run exits 1
\* without the wrapper header having been written or bindgen invoked.
\* Otherwise the wrapper header is written, bindgen is invoked on it, and
\* when that step is left, bindgen having succeeded or failed, the wrapper
\* header has been deleted.
C15_BindingsOnlyPath ==
    (tool = "vendor" /\ v_bindings_only) =>
        /\ t_lookups = 0
        /\ ~StepTaken("lookup") /\ ~StepTaken("clone") /\ ~StepTaken("version_file")
        /\ manifest = t_fs0[1] /\ tree = t_fs0[2]
        /\ wrapper <=> t_pc = "v_bindgen"
        /\ (t_pc = "done" /\ ~tree.exists) =>
              /\ t_exit = 1
              /\ t_steps = <<"bindings_only">>
              /\ bindings = t_fs0[3]
        /\ (t_pc = "done" /\ tree.exists) =>
              /\ t_steps = <<"bindings_only", "wrapper", "bindgen">>
              /\ ~wrapper
              /\ t_exit = 0 => (bindings = tree.commit /\ t_exc = "")
              /\ t_exit # 0 => (t_exit = 1 /\ t_exc = "RuntimeError: bindgen failed")

C15_Witness ==
    /\ tool = "vendor" /\ v_bindings_only /\ t_runs = 2
    /\ t_pc = "done" /\ t_exit = 1
    /\ t_exc = "RuntimeError: bindgen failed"
    /\ t_steps = <<"bindings_only", "wrapper", "bindgen">>
    /\ tree.exists /\ tree.commit = "b2b2b2b2" /\ manifest = "b2b2b2b2"
    /\ ~wrapper

(***************************************************************************)
(* Step order of generate_weights (SpecGen)                                *)
(***************************************************************************)
GenStepTaken(step) == \E k \in 1..Len(g_steps) : g_steps[k] = step

\* The steps of generate_weights in the order of the source
GenStepOrder == <<"read_commit", "mkdtemp", "clone", "model_hash", "download",
                  "patch_binary", "patch_bwe", "compile", "run", "publish">>

\* The steps taken so far are an initial part of GenStepOrder, followed by
\* the finally clause once the try block has been left; a step that raised
\* is followed by no other step.
GenStepsInOrder ==
    /\ \A k \in 1..Len(g_steps) :
          \/ k <= Len(GenStepOrder) /\ g_steps[k] = GenStepOrder[k]
          \/ k = Len(g_steps) /\ k > 2 /\ g_steps[k] = "finally"
    /\ g_exc # "" => g_pc \in {"finally", "main", "done"}
    /\ (GenStepTaken("model_hash") /\ g_model_hash = None /\ GenStepTaken("download")) =>
          /\ g_exc = "No model hash provided - cannot download model"
          /\ ~g_model /\ ~g_exe
          /\ ~GenStepTaken("patch_binary") /\ ~GenStepTaken("patch_bwe")
          /\ ~GenStepTaken("compile") /\ ~GenStepTaken("run") /\ ~GenStepTaken("publish")

GenFailed == g_pc = "done" /\ g_exc # ""

\* C16 as stated: the steps run in the order clone, model hash, download,
\* binary-mode patch, extended-model patch, compilation, execution,
\* publishing; a failing step (an absent model hash among them) keeps every
\* later step from running; so every failed run exits 1 and leaves the
\* output directory holding what it held before the run.
C16_FailedRunWritesNothing ==
    /\ GenStepsInOrder
    /\ GenFailed => (g_exit = 1 /\ g_out \in OutputDirs)

\* C16 amended: the same order and the same exit status; a run that fails
\* before the publishing step writes nothing to the output directory, and a
\* run that fails inside the publishing step has written at most the blob
\* (under the name of the run's model hash), never the checksum file, and
\* returns no paths.
C16_StepOrderAndFailure ==
    /\ GenStepsInOrder
    /\ GenFailed =>
          /\ g_exit = 1
          /\ g_ret = <<>>
          /\ ~GenStepTaken("publish") => g_out \in OutputDirs
          /\ GenStepTaken("publish") =>
                \E d \in OutputDirs : g_out \in {d, d \cup {BinName(g_model_hash)}}
    /\ (g_pc = "done" /\ g_exc = "") => (g_exit = 0 /\ GenStepTaken("publish"))

\* The checksum file could not be written: the blob of the run is in the
\* output directory and the run has failed.
C16_Witness ==
    /\ GenFailed /\ g_exit = 1
    /\ g_exc = "OSError: write_text"
    /\ g_steps = <<"read_commit", "mkdtemp", "clone", "model_hash", "download",
                   "patch_binary", "patch_bwe", "compile", "run", "publish", "finally">>
    /\ g_model_hash = "4ed9445d"
    /\ g_out = {"opus_data-4ed9445d.bin"}

(***************************************************************************)
(* The scan loop inside the guarded region (SpecStrip)                     *)
(***************************************************************************)
\* The loop consumes the line at sw_idx + 1 while inside the guarded region.
ScansInsideRegion == sw_pc = "scan" /\ in_weights_block /\ sw_idx' = sw_idx + 1

\* What the statement of C17 asks of the iteration that consumes line l.
InsideRegionStep(l) ==
    /\ IsIfLine(l) => (depth' = depth + 1 /\ new_lines' = new_lines)
    /\ IsEndifLine(l) => depth' = depth - 1
    /\ new_lines' # new_lines =>
          (IsEndifLine(l) /\ depth' = 0 /\ new_lines' = Append(new_lines, l))
    /\ new_lines' = new_lines => removed_lines' = removed_lines + 1

\* C17: while inside the guarded region every line that begins with #if
\* (#if, #ifdef, #ifndef, a nested "#ifndef USE_WEIGHTS_FILE" among them)
\* raises the depth by one and is discarded, every line that begins with
\* #endif lowers the depth by one, and the only line copied to the output
\* is the #endif that brings the depth to zero; no comment line is inserted.
C17_InsideRegionCounting ==
    [][ScansInsideRegion => InsideRegionStep(lines[sw_idx + 1])]_vars

\* The same statement for every line other than a nested guard line.
C17_InsideRegionCounting_NotGuardLine ==
    [][(ScansInsideRegion /\ ~IsGuardLine(lines[sw_idx + 1]))
          => InsideRegionStep(lines[sw_idx + 1])]_vars

\* A nested guard line has been consumed: the depth is back at 1 and the
\* guard line and a second comment line are in the output.
C17_NestedGuard_Witness ==
    /\ sw_pc = "scan" /\ sw_idx = 3
    /\ lines = <<GUARD, IFDEF, GUARD, ENDIF, ENDIF>>
    /\ depth = 1
    /\ new_lines = <<GUARD, COMMENT, GUARD, COMMENT>>

====
